---- MODULE Spec2Model ----
(***************************************************************************)
(* Model of src/frontend/js/app/api.js: the request dispatcher `fetch`,    *)
(* the raw uploader `FileUpload`, and the resource clients built on them.  *)
(*                                                                         *)
(* JavaScript values are tagged records.  The HTTP transport ($.ajax and   *)
(* XMLHttpRequest) and the backend are the environment: they pick the      *)
(* response of every request.  The token store (./tokens) is a collaborator*)
(* whose interface is modelled from its description.                       *)
(***************************************************************************)
EXTENDS Integers, Sequences, FiniteSets, TLC

VARIABLES tokens, calls

vars == <<tokens, calls>>

(***************************************************************************)
(* Bounds of the model.                                                    *)
(***************************************************************************)
\* Longest X-Dataset-Total header value, in characters.
MaxHdrLen == 2
\* Most tokens the store holds when the module is loaded.
MaxTokens == 2
\* Calls in flight together in SpecConcurrent.
MaxCalls == 2

(***************************************************************************)
(* JavaScript values.                                                      *)
(***************************************************************************)
Undefined == [type |-> "undefined"]

Null == [type |-> "null"]

Num(n) == [type |-> "number", nan |-> FALSE, n |-> n]

NaN == [type |-> "number", nan |-> TRUE, n |-> 0]

Str(s) == [type |-> "string", s |-> s]

Bool(b) == [type |-> "boolean", b |-> b]

\* An object is its own properties in insertion order: <<[k, v], ...>>.
Obj(props) == [type |-> "object", props |-> props]

\* A FormData instance: an object without enumerable own properties.
FormData == [type |-> "FormData"]

\* typeof x
Typeof(x) ==
    CASE x.type = "undefined" -> "undefined"
      [] x.type \in {"null", "object", "FormData"} -> "object"
      [] OTHER -> x.type

\* ToBoolean(x), as used by `x ? a : b`, `x || y` and `if (x)`.
Truthy(x) ==
    CASE x.type \in {"undefined", "null"} -> FALSE
      [] x.type = "number" -> ~x.nan /\ x.n # 0
      [] x.type = "string" -> x.s # ""
      [] x.type = "boolean" -> x.b
      [] OTHER -> TRUE

\* x.k where x is neither undefined nor null (those throw a TypeError, which
\* the callers decide with IsNullish).
GetProp(x, k) ==
    IF x.type = "object" /\ \E i \in DOMAIN x.props : x.props[i].k = k
    THEN x.props[CHOOSE i \in DOMAIN x.props : x.props[i].k = k].v
    ELSE Undefined

IsNullish(x) == x.type \in {"undefined", "null"}

\* delete x.k
DeleteProp(x, k) ==
    IF x.type = "object"
    THEN Obj(SelectSeq(x.props, LAMBDA p : p.k # k))
    ELSE x

HasProp(x, k) == x.type = "object" /\ \E i \in DOMAIN x.props : x.props[i].k = k

\* ToString(x), as applied by `'text' + x`.
ToStr(x) ==
    CASE x.type = "undefined" -> "undefined"
      [] x.type = "null" -> "null"
      [] x.type = "number" -> (IF x.nan THEN "NaN" ELSE ToString(x.n))
      [] x.type = "string" -> x.s
      [] x.type = "boolean" -> (IF x.b THEN "true" ELSE "false")
      [] x.type = "FormData" -> "[object FormData]"
      [] OTHER -> "[object Object]"

RECURSIVE JSONstringify(_)
RECURSIVE JSONmembers(_, _)
\* The members of an object literal, properties whose value is undefined left out.
JSONmembers(props, first) ==
    IF props = <<>> THEN ""
    ELSE LET p == Head(props) IN
         IF p.v.type = "undefined" THEN JSONmembers(Tail(props), first)
         ELSE (IF first THEN "" ELSE ",") \o "\"" \o p.k \o "\":" \o JSONstringify(p.v)
              \o JSONmembers(Tail(props), FALSE)

\* JSON.stringify(x) for x other than undefined (strings here hold no character
\* that needs escaping).
JSONstringify(x) ==
    CASE x.type = "null" -> "null"
      [] x.type = "number" -> (IF x.nan THEN "null" ELSE ToString(x.n))
      [] x.type = "string" -> "\"" \o x.s \o "\""
      [] x.type = "boolean" -> (IF x.b THEN "true" ELSE "false")
      [] x.type = "FormData" -> "{}"
      [] OTHER -> "{" \o JSONmembers(x.props, TRUE) \o "}"

(***************************************************************************)
(* The token store (./tokens): a stack of token objects {t: <value>}, the  *)
(* current token on top.                                                   *)
(***************************************************************************)
TokenObj(t) == Obj(<<[k |-> "t", v |-> t]>>)

\* Tokens.getTopToken(): the current token, or null when none is held.
getTopToken(store) == IF store = <<>> THEN Null ELSE Head(store)

\* Tokens.addToken(t): t becomes the current token, above the ones held.
addToken(store, t) == <<TokenObj(t)>> \o store

\* Tokens.setCurrentToken(t): the current token is overwritten with t (a
\* store holding none holds t afterwards).
setCurrentToken(store, t) ==
    IF store = <<>> THEN <<TokenObj(t)>> ELSE <<TokenObj(t)>> \o Tail(store)

\* Tokens.clearTokens()
clearTokens(store) == <<>>

(***************************************************************************)
(* fetch(verb, path, data, options): the request handed to $.ajax.         *)
(***************************************************************************)
NoOptions == [contentType |-> Undefined, processData |-> Undefined, timeout |-> Undefined]

\* The content types the model uses that /json/im matches.
JsonContentTypes == {"application/json", "text/JSON; charset=UTF-8"}

\* options.contentType.match(/json/im)
MatchesJson(ct) == ct.type = "string" /\ ct.s \in JsonContentTypes

DefaultContentType == "application/json; charset=UTF-8"

DefaultTimeout == 15000

\* Lines 46-48, then the `data:` setting of line 52.
FetchData(data, options) ==
    LET d1 == IF (Typeof(options.contentType) = "undefined" \/ MatchesJson(options.contentType))
                 /\ Typeof(data) = "object"
              THEN Str(JSONstringify(data))
              ELSE data
    IN  IF Typeof(d1) = "object" THEN Str(JSONstringify(d1)) ELSE d1

\* processData: options.processData || true
FetchProcessData(options) ==
    IF Truthy(options.processData) THEN options.processData ELSE Bool(TRUE)

\* Mutant of Authorization: token.t read without the test for a missing token.
AuthorizationUnguarded(token) == "Bearer " \o ToStr(GetProp(token, "t"))

\* 'Bearer ' + (token ? token.t : null)
Authorization(token) ==
    "Bearer " \o ToStr(IF Truthy(token) THEN GetProp(token, "t") ELSE Null)

\* The settings object of the $.ajax call, with the header beforeSend sets.
FetchRequest(verb, path, data, options, token) ==
    [ url           |-> "/api/" \o path,
      data          |-> FetchData(data, options),
      type          |-> verb,
      dataType      |-> "json",
      contentType   |-> IF Truthy(options.contentType)
                        THEN options.contentType.s ELSE DefaultContentType,
      processData   |-> FetchProcessData(options),
      timeout       |-> IF Truthy(options.timeout) THEN options.timeout.n ELSE DefaultTimeout,
      Authorization |-> Authorization(token) ]

\* FileUpload(path, fd): the request sent through XMLHttpRequest.
FileUploadRequest(path, fd, token) ==
    [ url           |-> "/api/" \o path,
      data          |-> fd,
      type          |-> "POST",
      mimeType      |-> "text/plain",
      Authorization |-> Authorization(token) ]

(***************************************************************************)
(* parseInt(s, 10) of a response header.  A header is absent               *)
(* (getResponseHeader gives null) or a sequence of characters.             *)
(***************************************************************************)
NoHeader == [present |-> FALSE, chars |-> <<>>]

Header(chars) == [present |-> TRUE, chars |-> chars]

Digits == <<"0", "1", "2", "3", "4", "5", "6", "7", "8", "9">>

IsDigit(c) == \E d \in DOMAIN Digits : Digits[d] = c

DigitVal(c) == (CHOOSE d \in DOMAIN Digits : Digits[d] = c) - 1

RECURSIVE SkipSpace(_)
SkipSpace(s) == IF s # <<>> /\ Head(s) = " " THEN SkipSpace(Tail(s)) ELSE s

RECURSIVE ParseDigits(_, _)
ParseDigits(s, acc) ==
    IF s # <<>> /\ IsDigit(Head(s))
    THEN ParseDigits(Tail(s), acc * 10 + DigitVal(Head(s)))
    ELSE acc

\* parseInt(h, 10): leading blanks skipped, an optional sign, then the longest
\* run of digits; NaN when there is none (as for null, read as "null").
parseInt(h) ==
    IF ~h.present THEN NaN
    ELSE LET s == SkipSpace(h.chars)
             signed == s # <<>> /\ Head(s) \in {"-", "+"}
             t == IF signed THEN Tail(s) ELSE s
         IN  IF t = <<>> \/ ~IsDigit(Head(t)) THEN NaN
             ELSE IF signed /\ Head(s) = "-" THEN Num(0 - ParseDigits(t, 0))
             ELSE Num(ParseDigits(t, 0))

(***************************************************************************)
(* The callbacks of fetch.  A jqXHR is a thenable: resolve(jqXHR) settles  *)
(* the promise with what the jqXHR's own then() delivers, the decoded body.*)
(***************************************************************************)
jqXHR(json, text, total, offset, limit) ==
    [ type |-> "jqXHR", responseJSON |-> json, responseText |-> text,
      total |-> total, offset |-> offset, limit |-> limit ]

\* The argument the success callback passes to resolve (lines 67-81).
FetchSuccessArg(data, response) ==
    IF response.total.present
    THEN Obj(<< [k |-> "data", v |-> data],
                [k |-> "pagination",
                 v |-> Obj(<< [k |-> "total",  v |-> parseInt(response.total)],
                              [k |-> "offset", v |-> parseInt(response.offset)],
                              [k |-> "limit",  v |-> parseInt(response.limit)] >>)] >>)
    ELSE response

\* The value a promise takes when resolve(x) is called on it.
PromiseResolve(x) == IF x.type = "jqXHR" THEN x.responseJSON ELSE x

\* new ApiError(message, debug, code): Error(message) keeps String(message).
ApiError(message, debug, code) ==
    [ type |-> "ApiError",
      message |-> IF message.type = "undefined" THEN "" ELSE ToStr(message),
      debug |-> debug, code |-> code ]

\* The error callback (lines 83-92): the ApiError it rejects with, or threw
\* when reading a property of null raises a TypeError before reject is reached.
FetchErrorOutcome(xhr, error_thrown) ==
    LET rj == xhr.responseJSON
        generic == [threw |-> FALSE,
                    error |-> ApiError(error_thrown, xhr.responseText, Num(400))]
        thrown == [threw |-> TRUE,
                   error |-> ApiError(Undefined, xhr.responseText, Num(400))]
    IN  IF Typeof(rj) = "undefined" THEN generic
        ELSE IF IsNullish(rj) THEN thrown
        ELSE LET e == GetProp(rj, "error") IN
             IF Typeof(e) = "undefined" THEN generic
             ELSE IF IsNullish(e) THEN thrown
             ELSE LET m == GetProp(e, "message")
                      c == GetProp(e, "code")
                  IN  IF Typeof(m) = "undefined" THEN generic
                      ELSE [threw |-> FALSE,
                            error |-> ApiError(m, xhr.responseText,
                                               IF Truthy(c) THEN c ELSE Num(500))]

(***************************************************************************)
(* State.  tokens is the token store; calls[c] is one call of the API:     *)
(* what it was given, the request it sent, what the transport reported and *)
(* the promises involved.                                                  *)
(***************************************************************************)
Pending == [state |-> "pending", arg |-> Undefined, value |-> Undefined]

\* resolve(x) on a pending promise.
Resolved(x) == [state |-> "resolved", arg |-> x, value |-> PromiseResolve(x)]

\* reject(x) on a pending promise.
Rejected(x) == [state |-> "rejected", arg |-> x, value |-> x]

Error(message) == [type |-> "Error", message |-> message]

NoRequest == [url |-> "", data |-> Undefined, type |-> "", Authorization |-> ""]

NoResponse == jqXHR(Undefined, "", NoHeader, NoHeader, NoHeader)

\* A call not made yet.  phase: idle, inflight (request sent), settled (the
\* transport's callback has run) or done (nothing of the call is left to run).
\* startedAfter records the calls that were done when this one was issued.
NoCall ==
    [ api |-> "none", via |-> "none", group |-> "", input |-> Undefined,
      wipe |-> Undefined, fetchData |-> Undefined, options |-> NoOptions,
      request |-> NoRequest, sent |-> 0, phase |-> "idle",
      transport |-> "none", xhr |-> NoResponse, error_thrown |-> Undefined,
      handler |-> "none", fetch |-> Pending, then |-> Pending,
      startedAfter |-> {} ]

TokenApis == {"Tokens.login", "Tokens.refresh"}

DoneCalls == {d \in DOMAIN calls : calls[d].phase = "done"}

\* The promise the API method returned to its caller.
Returned(call) == IF call.api \in TokenApis THEN call.then ELSE call.fetch

(***************************************************************************)
(* fetch and FileUpload up to the point where the request is sent.         *)
(***************************************************************************)
fetch(c, api, group, input, wipe, verb, path, data, options) ==
    /\ calls[c].phase = "idle"
    /\ calls' = [calls EXCEPT ![c] =
                    [NoCall EXCEPT !.api = api, !.via = "fetch", !.group = group,
                                   !.input = input, !.wipe = wipe,
                                   !.fetchData = data, !.options = options,
                                   !.request = FetchRequest(verb, path, data, options,
                                                            getTopToken(tokens)),
                                   !.sent = 1, !.phase = "inflight",
                                   !.startedAfter = DoneCalls]]
    /\ UNCHANGED tokens

\* upload(path, form_data)
upload(c, api, group, path, form_data) ==
    fetch(c, api, group, form_data, Undefined, "post", path, form_data,
          [contentType |-> Str("multipart/form-data"), processData |-> Bool(FALSE),
           timeout |-> Undefined])

FileUpload(c, api, group, path, fd) ==
    /\ calls[c].phase = "idle"
    /\ calls' = [calls EXCEPT ![c] =
                    [NoCall EXCEPT !.api = api, !.via = "FileUpload", !.group = group,
                                   !.input = fd, !.fetchData = fd,
                                   !.request = FileUploadRequest(path, fd, getTopToken(tokens)),
                                   !.sent = 1, !.phase = "inflight",
                                   !.startedAfter = DoneCalls]]
    /\ UNCHANGED tokens

\* getAllObjects(path, expand, query), for expand undefined or null.
getAllObjects(c, api, path, expand, query) ==
    LET noExpand == ~(Typeof(expand) = "object" /\ expand # Null)
        params == IF Typeof(query) = "string" THEN "?query=" \o query.s ELSE ""
    IN  /\ noExpand
        /\ fetch(c, api, path, Undefined, Undefined, "get", path \o params, Undefined, NoOptions)

(***************************************************************************)
(* The resource clients.                                                   *)
(***************************************************************************)
Status(c) == fetch(c, "status", "", Undefined, Undefined, "get", "", Undefined, NoOptions)

Login(c, identity, secret, wipe) ==
    fetch(c, "Tokens.login", "tokens", Undefined, wipe, "post", "tokens",
          Obj(<<[k |-> "identity", v |-> identity], [k |-> "secret", v |-> secret]>>),
          NoOptions)

Refresh(c) ==
    fetch(c, "Tokens.refresh", "tokens", Undefined, Undefined, "get", "tokens",
          Undefined, NoOptions)

\* Users.getById(user_id), expand left out.
GetById(c, user_id) ==
    fetch(c, "getById", "users", user_id, Undefined, "get",
          "users/" \o ToStr(user_id), Undefined, NoOptions)

GetAll(c, group, expand, query) == getAllObjects(c, "getAll", group, expand, query)

Create(c, group, data) ==
    fetch(c, "create", group, data, Undefined, "post", group, data, NoOptions)

\* Mutant of Update: data.id is not deleted before the body is sent.
UpdateKeepsId(c, group, data) ==
    fetch(c, "update", group, data, Undefined, "put",
          group \o "/" \o ToStr(GetProp(data, "id")), data, NoOptions)

\* let id = data.id; delete data.id; fetch('put', <group>/ + id, data)
Update(c, group, data) ==
    LET id == GetProp(data, "id")
        rest == DeleteProp(data, "id")
    IN  fetch(c, "update", group, data, Undefined, "put",
              group \o "/" \o ToStr(id), rest, NoOptions)

Delete(c, group, id) ==
    fetch(c, "delete", group, id, Undefined, "delete",
          group \o "/" \o ToStr(id), Undefined, NoOptions)

\* Users.setPassword(id, auth) and Users.setPermissions(id, perms)
UsersPut(c, sub, id, data) ==
    fetch(c, "Users." \o sub, "users", data, Undefined, "put",
          "users/" \o ToStr(id) \o "/" \o sub, data, NoOptions)

\* Users.loginAs(id)
LoginAs(c, id) ==
    fetch(c, "Users.loginAs", "users", id, Undefined, "post",
          "users/" \o ToStr(id) \o "/login", Undefined, NoOptions)

\* Nginx.ProxyHosts.setCerts uses FileUpload; RedirectionHosts and DeadHosts
\* use upload.
SetCerts(c, group, id, form_data) ==
    LET path == group \o "/" \o ToStr(id) \o "/certificates"
    IN  IF group = "nginx/proxy-hosts"
        THEN FileUpload(c, "setCerts", group, path, form_data)
        ELSE upload(c, "setCerts", group, path, form_data)

GetHostStats(c) ==
    fetch(c, "Reports.getHostStats", "reports", Undefined, Undefined, "get",
          "reports/hosts", Undefined, NoOptions)

(***************************************************************************)
(* The transport reports and the callbacks run.                            *)
(***************************************************************************)
\* success(data, textStatus, response), lines 67-81.
FetchSuccess(c, data, total, offset, limit) ==
    LET response == jqXHR(data, JSONstringify(data), total, offset, limit)
    IN  /\ calls[c].via = "fetch"
        /\ calls[c].phase = "inflight"
        /\ calls' = [calls EXCEPT ![c].transport = "success",
                                  ![c].xhr = response,
                                  ![c].handler = "returned",
                                  ![c].fetch = Resolved(FetchSuccessArg(data, response)),
                                  ![c].phase = IF calls[c].api \in TokenApis
                                               THEN "settled" ELSE "done"]
        /\ UNCHANGED tokens

\* Mutant of FetchError: a failed request also drops the stored tokens.
FetchErrorClearsTokens(c, json, text, error_thrown) ==
    /\ calls[c].via = "fetch"
    /\ calls[c].phase = "inflight"
    /\ calls' = [calls EXCEPT ![c].transport = "error",
                              ![c].xhr = jqXHR(json, text, NoHeader, NoHeader, NoHeader),
                              ![c].error_thrown = error_thrown,
                              ![c].handler = "returned",
                              ![c].fetch = Rejected(ApiError(error_thrown, text, Num(400))),
                              ![c].phase = IF calls[c].api \in TokenApis
                                           THEN "settled" ELSE "done"]
    /\ tokens' = clearTokens(tokens)

\* error(xhr, status, error_thrown), lines 83-92.  When the callback throws,
\* reject is never called and nothing else refers to the promise.
FetchError(c, json, text, error_thrown) ==
    LET xhr == jqXHR(json, text, NoHeader, NoHeader, NoHeader)
        outcome == FetchErrorOutcome(xhr, error_thrown)
    IN  /\ calls[c].via = "fetch"
        /\ calls[c].phase = "inflight"
        /\ calls' = [calls EXCEPT ![c].transport = "error",
                                  ![c].xhr = xhr,
                                  ![c].error_thrown = error_thrown,
                                  ![c].handler = IF outcome.threw THEN "threw" ELSE "returned",
                                  ![c].fetch = IF outcome.threw THEN Pending
                                               ELSE Rejected(outcome.error),
                                  ![c].phase = IF calls[c].api \in TokenApis /\ ~outcome.threw
                                               THEN "settled" ELSE "done"]
        /\ UNCHANGED tokens

\* xhr.onreadystatechange at readyState DONE, lines 154-162.
FileUploadDone(c, status, text) ==
    /\ calls[c].via = "FileUpload"
    /\ calls[c].phase = "inflight"
    /\ calls' = [calls EXCEPT ![c].transport = IF status \in {200, 201}
                                               THEN "success" ELSE "error",
                              ![c].xhr = jqXHR(Undefined, text, NoHeader, NoHeader, NoHeader),
                              ![c].handler = "returned",
                              ![c].fetch = IF status # 200 /\ status # 201
                                           THEN Rejected(Error("Upload failed: " \o ToString(status)))
                                           ELSE Resolved(Str(text)),
                              ![c].phase = "done"]
    /\ UNCHANGED tokens

\* A rejection of fetch's promise passes through .then(onFulfilled) unchanged.
ThenRejected(c) ==
    /\ calls[c].api \in TokenApis
    /\ calls[c].phase = "settled"
    /\ calls[c].fetch.state = "rejected"
    /\ calls' = [calls EXCEPT ![c].then = Rejected(calls[c].fetch.value),
                              ![c].phase = "done"]
    /\ UNCHANGED tokens

\* Mutant of LoginStore: wipe is ignored.
LoginStoreIgnoresWipe(store, response, wipe) ==
    LET token == GetProp(response, "token")
    IN  IF Truthy(token) THEN addToken(store, token) ELSE clearTokens(store)

\* The store after the .then callback of Tokens.login, lines 181-194.
LoginStore(store, response, wipe) ==
    LET token == GetProp(response, "token")
    IN  IF Truthy(token)
        THEN addToken(IF Truthy(wipe) THEN clearTokens(store) ELSE store, token)
        ELSE clearTokens(store)

\* Mutant of RefreshStore: the new token is added instead of replacing the top.
RefreshStoreAdds(store, response) ==
    LET token == GetProp(response, "token")
    IN  IF Truthy(token) THEN addToken(store, token) ELSE clearTokens(store)

\* The store after the .then callback of Tokens.refresh, lines 202-210.
RefreshStore(store, response) ==
    LET token == GetProp(response, "token")
    IN  IF Truthy(token) THEN setCurrentToken(store, token) ELSE clearTokens(store)

\* What either callback returns or throws.
TokenResult(response) ==
    LET token == GetProp(response, "token")
    IN  IF Truthy(token) THEN Resolved(token) ELSE Rejected(Error("No token returned"))

\* A TypeError: response.token of a body that is undefined or null.
TypeError == Rejected(Error("Cannot read properties of null"))

LoginThen(c) ==
    LET response == calls[c].fetch.value
    IN  /\ calls[c].api = "Tokens.login"
        /\ calls[c].phase = "settled"
        /\ calls[c].fetch.state = "resolved"
        /\ IF IsNullish(response)
           THEN /\ calls' = [calls EXCEPT ![c].then = TypeError, ![c].phase = "done"]
                /\ UNCHANGED tokens
           ELSE /\ tokens' = LoginStore(tokens, response, calls[c].wipe)
                /\ calls' = [calls EXCEPT ![c].then = TokenResult(response),
                                          ![c].phase = "done"]

RefreshThen(c) ==
    LET response == calls[c].fetch.value
    IN  /\ calls[c].api = "Tokens.refresh"
        /\ calls[c].phase = "settled"
        /\ calls[c].fetch.state = "resolved"
        /\ IF IsNullish(response)
           THEN /\ calls' = [calls EXCEPT ![c].then = TypeError, ![c].phase = "done"]
                /\ UNCHANGED tokens
           ELSE /\ tokens' = RefreshStore(tokens, response)
                /\ calls' = [calls EXCEPT ![c].then = TokenResult(response),
                                          ![c].phase = "done"]

(***************************************************************************)
(* Inputs: what callers pass and what the backend answers.                 *)
(***************************************************************************)
RECURSIVE SeqsUpTo(_, _)
\* The sequences over S of length at most n.
SeqsUpTo(S, n) ==
    IF n = 0 THEN {<<>>}
    ELSE LET shorter == SeqsUpTo(S, n - 1)
         IN  shorter \cup {Append(q, x) : q \in shorter, x \in S}

Prop(k, v) == [k |-> k, v |-> v]

GetAllGroups ==
    {"users", "nginx/proxy-hosts", "nginx/redirection-hosts", "nginx/streams",
     "nginx/dead-hosts", "access-lists", "audit-log"}

CrudGroups == GetAllGroups \ {"audit-log"}

CertGroups == {"nginx/proxy-hosts", "nginx/redirection-hosts", "nginx/dead-hosts"}

DataObjs ==
    { Obj(<<Prop("id", Num(5)), Prop("name", Str("x"))>>),
      Obj(<<Prop("name", Str("x")), Prop("id", Str("7")), Prop("enabled", Bool(TRUE))>>),
      Obj(<<Prop("name", Str("y"))>>) }

Ids == {Num(5), Str("7")}

Queries == {Undefined, Str("foo=bar")}

Wipes == {Undefined, Bool(TRUE), Bool(FALSE)}

\* The token at depth i of the store the module is loaded with.
StoredToken(i) == Str("old" \o ToString(i))

\* Decoded bodies of successful responses (JSON objects).
Bodies ==
    { Obj(<<Prop("token", Str("tA")), Prop("expires", Str("2026-12-01"))>>),
      Obj(<<Prop("expires", Str("2026-12-01"))>>),
      Obj(<<Prop("id", Num(5)), Prop("name", Str("x"))>>) }

HdrChars == {"4", "-", "x"}

TotalHeaders == {NoHeader} \cup {Header(q) : q \in SeqsUpTo(HdrChars, MaxHdrLen)}

OffsetHeaders == {NoHeader, Header(<<"2", "0">>)}

LimitHeaders == {NoHeader, Header(<<" ", "1", "0">>)}

ErrorEnvelope(e) == Obj(<<Prop("error", e)>>)

\* responseJSON of failed responses: no JSON body, no error field, a null
\* error, an error without message, and envelopes with and without code.
ErrorJSONs ==
    { Undefined, Obj(<<>>), ErrorEnvelope(Null),
      ErrorEnvelope(Obj(<<Prop("code", Num(403))>>)),
      ErrorEnvelope(Obj(<<Prop("message", Str("Bad input"))>>)),
      ErrorEnvelope(Obj(<<Prop("message", Str("Bad input")), Prop("code", Num(422))>>)),
      ErrorEnvelope(Obj(<<Prop("message", Str("Bad input")), Prop("code", Num(0))>>)) }

\* responseText of a failed response whose decoded body is json.
ErrorTexts(json) ==
    IF json = Undefined THEN {"", "<html>502 Bad Gateway</html>"}
    ELSE {JSONstringify(json)}

ErrorsThrown == {Str("timeout"), Str("Bad Request")}

UploadStatuses == {200, 201, 400, 500}

(***************************************************************************)
(* Spec: one call of any operation, with every input and response of the   *)
(* sets above, from any store the page may be loaded with.                 *)
(***************************************************************************)
Stores == {[i \in 1..n |-> TokenObj(StoredToken(i))] : n \in 0..MaxTokens}

Init ==
    /\ tokens \in Stores
    /\ calls = [c \in 1..1 |-> NoCall]

CallStatus == \E c \in DOMAIN calls : Status(c)

CallLogin ==
    \E c \in DOMAIN calls, w \in Wipes :
        Login(c, Str("admin@example.com"), Str("changeme"), w)

CallRefresh == \E c \in DOMAIN calls : Refresh(c)

CallGetById == \E c \in DOMAIN calls, id \in Ids : GetById(c, id)

CallGetAll ==
    \E c \in DOMAIN calls, g \in GetAllGroups, e \in {Undefined, Null}, q \in Queries :
        GetAll(c, g, e, q)

CallCreate == \E c \in DOMAIN calls, g \in CrudGroups, d \in DataObjs : Create(c, g, d)

CallUpdate == \E c \in DOMAIN calls, g \in CrudGroups, d \in DataObjs : Update(c, g, d)

CallDelete == \E c \in DOMAIN calls, g \in CrudGroups, id \in Ids : Delete(c, g, id)

CallUsersPut ==
    \E c \in DOMAIN calls, sub \in {"auth", "permissions"}, id \in Ids, d \in DataObjs :
        UsersPut(c, sub, id, d)

CallLoginAs == \E c \in DOMAIN calls, id \in Ids : LoginAs(c, id)

CallSetCerts ==
    \E c \in DOMAIN calls, g \in CertGroups, id \in Ids : SetCerts(c, g, id, FormData)

CallGetHostStats == \E c \in DOMAIN calls : GetHostStats(c)

OnSuccess ==
    \E c \in DOMAIN calls, d \in Bodies, t \in TotalHeaders,
       o \in OffsetHeaders, l \in LimitHeaders :
        FetchSuccess(c, d, t, o, l)

OnError ==
    \E c \in DOMAIN calls, j \in ErrorJSONs, e \in ErrorsThrown :
        \E x \in ErrorTexts(j) : FetchError(c, j, x, e)

OnUploadDone ==
    \E c \in DOMAIN calls, st \in UploadStatuses : FileUploadDone(c, st, "uploaded")

OnThenRejected == \E c \in DOMAIN calls : ThenRejected(c)

OnLoginThen == \E c \in DOMAIN calls : LoginThen(c)

OnRefreshThen == \E c \in DOMAIN calls : RefreshThen(c)

Next ==
    \/ CallStatus
    \/ CallLogin
    \/ CallRefresh
    \/ CallGetById
    \/ CallGetAll
    \/ CallCreate
    \/ CallUpdate
    \/ CallDelete
    \/ CallUsersPut
    \/ CallLoginAs
    \/ CallSetCerts
    \/ CallGetHostStats
    \/ OnSuccess
    \/ OnError
    \/ OnUploadDone
    \/ OnThenRejected
    \/ OnLoginThen
    \/ OnRefreshThen

Spec == Init /\ [][Next]_vars

(***************************************************************************)
(* SpecConcurrent: MaxCalls calls in flight together, their requests       *)
(* answered in any order.                                                  *)
(***************************************************************************)
\* The backend issues a token of its own to each request.
IssuedToken(c) == Str("tok" \o ToString(c))

TokenBodies(c) == {Obj(<<Prop("token", IssuedToken(c))>>), Obj(<<>>)}

InitConcurrent ==
    /\ tokens \in Stores
    /\ calls = [c \in 1..MaxCalls |-> NoCall]

ConcLogin ==
    \E c \in DOMAIN calls, w \in {Bool(TRUE), Bool(FALSE)} :
        Login(c, Str("admin@example.com"), Str("changeme"), w)

ConcUpdate ==
    \E c \in DOMAIN calls :
        Update(c, "users", Obj(<<Prop("id", Num(5)), Prop("name", Str("x"))>>))

ConcSetCerts ==
    \E c \in DOMAIN calls, g \in {"nginx/proxy-hosts", "nginx/dead-hosts"} :
        SetCerts(c, g, Num(5), FormData)

ConcSuccess ==
    \E c \in DOMAIN calls :
        \E d \in TokenBodies(c) : FetchSuccess(c, d, NoHeader, NoHeader, NoHeader)

ConcError == \E c \in DOMAIN calls : FetchError(c, Undefined, "", Str("timeout"))

ConcUploadDone == \E c \in DOMAIN calls, st \in {200, 500} : FileUploadDone(c, st, "uploaded")

NextConcurrent ==
    \/ CallStatus
    \/ ConcLogin
    \/ CallRefresh
    \/ ConcUpdate
    \/ ConcSetCerts
    \/ ConcSuccess
    \/ ConcError
    \/ ConcUploadDone
    \/ OnThenRejected
    \/ OnLoginThen
    \/ OnRefreshThen

SpecConcurrent == InitConcurrent /\ [][NextConcurrent]_vars

(***************************************************************************)
(* Properties.                                                             *)
(***************************************************************************)
Issued(c) == calls[c].phase # "idle"

\* The step in which call c sends its request.
Issues(c) == calls[c].phase = "idle" /\ calls'[c].phase # "idle"

\* The step in which the .then callback of login or refresh call c runs on a
\* response.
Completes(c) ==
    /\ calls[c].api \in TokenApis
    /\ calls[c].phase = "settled"
    /\ calls[c].fetch.state = "resolved"
    /\ calls'[c].phase = "done"

\* C1: every request of fetch and of FileUpload carries 'Bearer ' followed by
\* the t of the token on top of the store when the call is issued, 'Bearer null'
\* when the store is empty; and a call can always be issued on an empty store.
C1_AuthorizationHeader ==
    /\ [][\A c \in DOMAIN calls :
            Issues(c) =>
               /\ calls'[c].sent = 1
               /\ calls'[c].request.Authorization =
                     IF tokens = <<>> THEN "Bearer null"
                     ELSE "Bearer " \o GetProp(Head(tokens), "t").s]_vars
    /\ [](\A c \in DOMAIN calls :
            tokens = <<>> /\ ~Issued(c) =>
               ENABLED Status(c) /\ ENABLED SetCerts(c, "nginx/proxy-hosts", Num(5), FormData))

\* C1 witness: a login sent without a token, and a FileUpload sent later with
\* the token that login stored.
C1_Witness ==
    \E c, d \in DOMAIN calls :
        /\ calls[c].api = "Tokens.login" /\ calls[c].request.Authorization = "Bearer null"
        /\ calls[c].then.state = "resolved"
        /\ calls[d].via = "FileUpload"
        /\ calls[d].request.Authorization = "Bearer " \o calls[c].then.value.s

\* C2: a failed fetch rejects with the envelope's error.message and error.code
\* (500 when the code is omitted) when the body has an error.message, else with
\* the transport error text and 400; debug is the raw response text.
C2_RejectionValue ==
    \A c \in DOMAIN calls :
        calls[c].via = "fetch" /\ calls[c].transport = "error"
        /\ calls[c].fetch.state = "rejected" =>
           LET xhr == calls[c].xhr
               e == GetProp(xhr.responseJSON, "error")
               err == calls[c].fetch.value
           IN  /\ err.debug = xhr.responseText
               /\ IF HasProp(e, "message")
                  THEN /\ err.message = GetProp(e, "message").s
                       /\ err.code = IF HasProp(e, "code") THEN GetProp(e, "code") ELSE Num(500)
                  ELSE /\ err.message = calls[c].error_thrown.s
                       /\ err.code = Num(400)

IsInteger(x) == x.type = "number" /\ ~x.nan

\* C3: a successful fetch resolves with {data, pagination: {total, offset,
\* limit}}, all three integers parsed from the headers, when X-Dataset-Total is
\* present, and with the raw response object when it is absent.
C3_PaginationShape ==
    \A c \in DOMAIN calls :
        calls[c].via = "fetch" /\ calls[c].transport = "success" =>
           LET xhr == calls[c].xhr
               p == calls[c].fetch
               pg == GetProp(p.value, "pagination")
           IN  /\ p.state = "resolved"
               /\ IF xhr.total.present
                  THEN /\ Len(p.value.props) = 2
                       /\ GetProp(p.value, "data") = xhr.responseJSON
                       /\ Len(pg.props) = 3
                       /\ GetProp(pg, "total") = parseInt(xhr.total)
                       /\ GetProp(pg, "offset") = parseInt(xhr.offset)
                       /\ GetProp(pg, "limit") = parseInt(xhr.limit)
                       /\ \A k \in {"total", "offset", "limit"} : IsInteger(GetProp(pg, k))
                  ELSE p.arg = xhr

\* C4: under a content type that is not JSON the body reaches the transport
\* unmodified and processData false is passed on; a structured body under the
\* default or a JSON content type is serialized once.
C4_BodyPassThrough ==
    \A c \in DOMAIN calls :
        calls[c].via = "fetch" /\ Issued(c) =>
           LET ct == calls[c].options.contentType
               r == calls[c].request
           IN  IF Typeof(ct) # "undefined" /\ ~MatchesJson(ct)
               THEN /\ r.data = calls[c].fetchData
                    /\ calls[c].options.processData = Bool(FALSE) => r.processData = Bool(FALSE)
               ELSE Typeof(calls[c].fetchData) = "object" =>
                       r.data = Str(JSONstringify(calls[c].fetchData))

C7_SettledOnce ==
    \A c \in DOMAIN calls :
        calls[c].via = "fetch" /\ calls[c].transport # "none" =>
           /\ calls[c].sent = 1
           /\ calls[c].transport = "success" => calls[c].fetch.state = "resolved"
           /\ calls[c].transport = "error" => calls[c].fetch.state = "rejected"

OtherProps(x, k) == {x.props[i] : i \in {j \in DOMAIN x.props : x.props[j].k # k}}

\* C9: update(data) sends PUT to <resource path>/<data.id on entry> and its body
\* is the serialization of every other field of data, without an id.
C9_UpdateBody ==
    \A c \in DOMAIN calls :
        calls[c].api = "update" /\ Issued(c) =>
           LET data == calls[c].input
               sent == calls[c].fetchData
           IN  /\ calls[c].request.type = "put"
               /\ calls[c].request.url =
                     "/api/" \o calls[c].group \o "/" \o ToStr(GetProp(data, "id"))
               /\ ~HasProp(sent, "id")
               /\ OtherProps(sent, "id") = OtherProps(data, "id")
               /\ Len(sent.props) = Cardinality(OtherProps(data, "id"))
               /\ calls[c].request.data = Str(JSONstringify(sent))

\* C9 witness: an update of an object holding an id and two more fields was sent.
C9_Witness ==
    \E c \in DOMAIN calls :
        /\ calls[c].api = "update" /\ Issued(c)
        /\ HasProp(calls[c].input, "id")
        /\ Cardinality(OtherProps(calls[c].input, "id")) = 2
        /\ calls[c].request.data = Str("{\"name\":\"x\",\"enabled\":true}")

\* Login call l was given wipe and has resolved with the token now on top.
HoldsLogin(l) ==
    /\ calls[l].api = "Tokens.login" /\ calls[l].phase = "done"
    /\ Truthy(calls[l].wipe)
    /\ calls[l].then.state = "resolved"
    /\ tokens # <<>> /\ Head(tokens) = TokenObj(calls[l].then.value)

\* C10: once login(identity, secret, true) has resolved with T, the current
\* token stays T until a login or refresh started after that resolution
\* completes.
C10_LoginTokenStable ==
    [][\A l \in DOMAIN calls :
          HoldsLogin(l) /\ getTopToken(tokens') # getTopToken(tokens) =>
             \E c \in DOMAIN calls : Completes(c) /\ l \in calls[c].startedAfter]_vars

====
